---- MODULE Spec2Model ----
(***************************************************************************)
(* Model of the AudioTranscription component                               *)
(* (src/audioInterface/src/routes/index.tsx): the connection / recording   *)
(* lifecycle driven by the four buttons, the asynchronous continuations of *)
(* connect() and startRecording(), and the notifications of the peer       *)
(* connection and its two data channels.                                   *)
(*                                                                         *)
(* A JavaScript string is a sequence of atoms (the empty string is <<>>),  *)
(* so that concatenation is \o and truthiness is non-emptiness.  Error     *)
(* messages are TLA+ strings, "" being the empty message.                  *)
(***************************************************************************)
EXTENDS Integers, Sequences, FiniteSets, TLC

\* Bounds of the model.
MaxCalls == 3       \* connect() and startRecording() calls in one run, together;
                    \* with the audioprocess events that follow one another, one more
MaxMsg == 2         \* texts appended to the Transcript between two clears

Null == 0           \* a ref holding null

VARIABLES
    connectionState,    \* useState<ConnectionState>
    transcription,      \* useState<string>
    errorMessage,       \* useState<string>
    refs,               \* the six useRef slots, each Null or the id of a resource
    pc,                 \* the RTCPeerConnections created so far, by id 1..Len(pc)
    rec,                \* the startRecording() calls made so far, by id 1..Len(rec)
    delivered,          \* history: texts appended since the Transcript was last cleared
    last,               \* history: the last step, and the connectionState it started in
    ticks,              \* history: the audioprocess events since the last other event
    sent,               \* history: the chunks they handed to an audio channel, each
                        \* by the number of its event
    inputData,          \* resampleAudio: the Float32Array it is called with
    sourceSampleRate,   \* resampleAudio: its second argument
    targetSampleRate,   \* resampleAudio: its third argument
    int16Data,          \* resampleAudio: the Int16Array it returns
    returned            \* resampleAudio: whether the call has returned

\* The variables of a call of resampleAudio().
resampler == <<inputData, sourceSampleRate, targetSampleRate, int16Data, returned>>

\* The audio stream.
stream == <<ticks, sent>>

vars == <<connectionState, transcription, errorMessage, refs, pc, rec,
          delivered, last, stream, resampler>>

\* The awaits of connect(), in order.  Besides them, a call of connect() may
\* have "returned" (from its try block or from its catch block), or its
\* continuation is "dropped": it awaits a promise that is never settled.
InFlight == {"offer", "local", "fetch", "json", "remote"}

\* Whether the awaited call of a step is a method of the peer connection.
PcStep(step) == step \in {"offer", "local", "remote"}

NextStep(step) ==
    CASE step = "offer" -> "local"
      [] step = "local" -> "fetch"
      [] step = "fetch" -> "json"
      [] step = "json" -> "remote"
      [] step = "remote" -> "returned"

NoRefs ==
    [processorRef |-> Null, mediaStreamRef |-> Null, audioContextRef |-> Null,
     pcRef |-> Null, audioChannelRef |-> Null, transcriptionChannelRef |-> Null]

\* cleanup() without line 59: the peer connection is dropped, not closed.
CleanupLogWithoutPcClose(r) ==
    (IF r.processorRef # Null THEN <<<<"processor.disconnect", r.processorRef>>>> ELSE <<>>)
    \o (IF r.mediaStreamRef # Null THEN <<<<"track.stop", r.mediaStreamRef>>>> ELSE <<>>)
    \o (IF r.audioContextRef # Null THEN <<<<"audioContext.close", r.audioContextRef>>>> ELSE <<>>)

\* The release calls cleanup() makes on the refs r, in the order it makes them.
CleanupLog(r) ==
    (IF r.processorRef # Null THEN <<<<"processor.disconnect", r.processorRef>>>> ELSE <<>>)
    \o (IF r.mediaStreamRef # Null THEN <<<<"track.stop", r.mediaStreamRef>>>> ELSE <<>>)
    \o (IF r.audioContextRef # Null THEN <<<<"audioContext.close", r.audioContextRef>>>> ELSE <<>>)
    \o (IF r.pcRef # Null THEN <<<<"pc.close", r.pcRef>>>> ELSE <<>>)

\* cleanup() without lines 63-64: the two channel refs are kept.
CleanupRefsKeepsChannels(r) ==
    [r EXCEPT !.processorRef = Null, !.mediaStreamRef = Null, !.audioContextRef = Null,
              !.pcRef = Null]

\* cleanup() without line 50: the media stream is stopped, its ref is kept.
CleanupRefsKeepsStream(r) ==
    [processorRef |-> Null, mediaStreamRef |-> r.mediaStreamRef, audioContextRef |-> Null,
     pcRef |-> Null, audioChannelRef |-> Null, transcriptionChannelRef |-> Null]

\* The refs after cleanup().
CleanupRefs(r) ==
    [processorRef |-> Null, mediaStreamRef |-> Null, audioContextRef |-> Null,
     pcRef |-> Null, audioChannelRef |-> Null, transcriptionChannelRef |-> Null]

\* The release calls stopRecording() makes on the refs r, in order.
StopLog(r) ==
    (IF r.processorRef # Null THEN <<<<"processor.disconnect", r.processorRef>>>> ELSE <<>>)
    \o (IF r.mediaStreamRef # Null THEN <<<<"track.stop", r.mediaStreamRef>>>> ELSE <<>>)
    \o (IF r.audioContextRef # Null THEN <<<<"audioContext.close", r.audioContextRef>>>> ELSE <<>>)

\* stopRecording() that clears the channel refs as cleanup() does.
StopRefsClearsChannels(r) ==
    [r EXCEPT !.processorRef = Null, !.mediaStreamRef = Null, !.audioContextRef = Null,
              !.audioChannelRef = Null, !.transcriptionChannelRef = Null]

\* The refs after stopRecording().
StopRefs(r) ==
    [r EXCEPT !.processorRef = Null, !.mediaStreamRef = Null, !.audioContextRef = Null]

Calls(log, what) == {log[i][2] : i \in {j \in DOMAIN log : log[j][1] = what}}

\* pc.close() on the connections named in log: the connection and both channels
\* are closed at once, and no event is fired for it.  The promise of a method
\* of the connection that is pending then is never settled.
ClosePcs(pcs, log) ==
    [p \in DOMAIN pcs |->
        IF p \in Calls(log, "pc.close") /\ ~pcs[p].closed
        THEN [pcs[p] EXCEPT !.closed = TRUE, !.conn = "closed",
                            !.audio = "closed",
                            !.trans = "closed",
                            !.hs = IF PcStep(@) THEN "dropped" ELSE @]
        ELSE pcs[p]]

\* The release calls of log applied to the recording resources: of each call r
\* of startRecording(), whether its processing node is connected, its media
\* stream is running and its audio context is open.
ReleaseRecs(recs, log) ==
    [r \in DOMAIN recs |->
        [recs[r] EXCEPT
            !.wired = @ /\ r \notin Calls(log, "processor.disconnect"),
            !.live = @ /\ r \notin Calls(log, "track.stop"),
            !.open = @ /\ r \notin Calls(log, "audioContext.close")]]

\* The history of the audio stream over a step that is no audioprocess event:
\* it starts anew.  Such a step may change what the next audioprocess event
\* reads (the audio-channel handle, the state of the channel); the chunks sent
\* before it stay sent, and each later event hands over its chunk after them.
NoAudioProcess == ticks' = 0 /\ sent' = <<>>

\* The record of a step: what ran, and from which connectionState.
Did(op) == [op |-> op, from |-> connectionState]

Init ==
    /\ connectionState = "disconnected"
    /\ transcription = <<>>
    /\ errorMessage = ""
    /\ refs = NoRefs
    /\ pc = <<>>
    /\ rec = <<>>
    /\ delivered = <<>>
    /\ last = [op |-> "init", from |-> "disconnected"]
    /\ ticks = 0
    /\ sent = <<>>
    /\ inputData = <<>>
    /\ sourceSampleRate = 16000
    /\ targetSampleRate = 16000
    /\ int16Data = <<>>
    /\ returned = FALSE

\* A Connect button that is never disabled.
ConnectAlwaysEnabled == TRUE

\* disabled={connectionState !== 'disconnected'} of the Connect button.
ConnectEnabled == connectionState = "disconnected"

\* Click on Connect: connect() up to its first await (pc.createOffer()).
Connect ==
    /\ ConnectEnabled
    /\ Len(pc) + Len(rec) < MaxCalls
    /\ LET id == Len(pc) + 1 IN
        /\ connectionState' = "connecting"
        /\ errorMessage' = ""
        /\ refs' = [refs EXCEPT !.pcRef = id, !.audioChannelRef = id,
                                !.transcriptionChannelRef = id]
        /\ pc' = Append(pc, [hs |-> "offer", closed |-> FALSE, conn |-> "new",
                             audio |-> "connecting", trans |-> "connecting",
                             cap |-> connectionState, abandoned |-> FALSE])
        /\ last' = Did("connect")
        /\ NoAudioProcess /\ UNCHANGED resampler
    /\ UNCHANGED <<transcription, rec, delivered>>

\* disabled={connectionState === 'disconnected'} of the Disconnect button.
DisconnectEnabled == connectionState # "disconnected"

\* Click on Disconnect: disconnect().
Disconnect ==
    /\ DisconnectEnabled
    /\ LET log == CleanupLog(refs) IN
        /\ refs' = CleanupRefs(refs)
        /\ pc' = [p \in DOMAIN pc |->
                    [ClosePcs(pc, log)[p] EXCEPT
                        !.abandoned = @ \/ ClosePcs(pc, log)[p].hs \in InFlight]]
        /\ rec' = ReleaseRecs(rec, log)
    /\ connectionState' = "disconnected"
    /\ transcription' = <<>>
    /\ delivered' = <<>>
    /\ errorMessage' = ""
    /\ last' = Did("disconnect")
    /\ NoAudioProcess
    /\ UNCHANGED resampler

\* A thrown value: an Error with its message, or a value that is no Error.
Err(m) == [isError |-> TRUE, message |-> m]
NonError == [isError |-> FALSE, message |-> ""]

\* An Error of the platform (a DOMException, TypeError or SyntaxError); its
\* message is not empty, and stands for any such message.
PlatformError == Err("InvalidStateError")

\* What an awaited call may reject with.
Thrown == {PlatformError, NonError}

\* error.message without the instanceof test.
MessageOfNoFallback(thrown, fallback) == thrown.message

\* error instanceof Error ? error.message : fallback
MessageOf(thrown, fallback) == IF thrown.isError THEN thrown.message ELSE fallback

\* The catch block of connect(), for the handshake of connection p.
ConnectCatch(p, thrown) ==
    LET log == CleanupLog(refs) IN
    /\ errorMessage' = MessageOf(thrown, "Failed to connect")
    /\ connectionState' = "error"
    /\ refs' = CleanupRefs(refs)
    /\ pc' = [ClosePcs(pc, log) EXCEPT ![p].hs = "returned", ![p].abandoned = FALSE]
    /\ rec' = ReleaseRecs(rec, log)
    /\ last' = Did("connectCatch")
    /\ NoAudioProcess
    /\ UNCHANGED resampler
    /\ UNCHANGED <<transcription, delivered>>

\* An await of connect() resolves and connect() runs to its next await (or to
\* its end).  The promise of a method of the peer connection that is pending
\* when the connection is closed is never settled; a method called on a closed
\* connection (setRemoteDescription, once response.json() has resolved) rejects
\* with an InvalidStateError, which connect() catches before any other event
\* is handled.  A response that is not ok makes connect() throw instead
\* (HandshakeHttpError).
HandshakeResolve(p) ==
    /\ pc[p].hs \in InFlight
    /\ PcStep(pc[p].hs) => ~pc[p].closed
    /\ IF PcStep(NextStep(pc[p].hs)) /\ pc[p].closed
       THEN ConnectCatch(p, PlatformError)
       ELSE /\ pc' = [pc EXCEPT ![p].hs = NextStep(@),
                                ![p].abandoned = @ /\ NextStep(pc[p].hs) \in InFlight]
            /\ last' = Did("handshakeResolve")
            /\ NoAudioProcess /\ UNCHANGED resampler
            /\ UNCHANGED <<connectionState, transcription, errorMessage, refs, rec,
                           delivered>>

\* An await of connect() rejects.
HandshakeReject(p) ==
    /\ pc[p].hs \in InFlight
    /\ PcStep(pc[p].hs) => ~pc[p].closed
    /\ \E thrown \in Thrown : ConnectCatch(p, thrown)

\* fetch() resolves with a response whose ok is false: connect() throws.
HandshakeHttpError(p) ==
    /\ pc[p].hs = "fetch"
    /\ ConnectCatch(p, Err("HTTP error! status: 500"))

\* The handler of pc.onconnectionstatechange, for pc.connectionState = s.
OnConnectionStateChange(p, s) ==
    LET log == CleanupLog(refs) IN
    /\ IF s = "failed"
       THEN /\ errorMessage' = "Connection failed"
            /\ connectionState' = "error"
            /\ refs' = CleanupRefs(refs)
            /\ pc' = [ClosePcs(pc, log) EXCEPT ![p].conn = IF @ = "closed" THEN @ ELSE s]
            /\ rec' = ReleaseRecs(rec, log)
       ELSE IF s \in {"disconnected", "closed"}
       THEN /\ connectionState' = "disconnected"
            /\ refs' = CleanupRefs(refs)
            /\ pc' = [ClosePcs(pc, log) EXCEPT ![p].conn = IF @ = "closed" THEN @ ELSE s]
            /\ rec' = ReleaseRecs(rec, log)
            /\ UNCHANGED errorMessage
       ELSE /\ pc' = [pc EXCEPT ![p].conn = s]
            /\ UNCHANGED <<connectionState, errorMessage, refs, rec>>
    /\ last' = Did("connectionstatechange")
    /\ NoAudioProcess
    /\ UNCHANGED resampler
    /\ UNCHANGED <<transcription, delivered>>

\* The connection states the transport may move an open connection to.
ConnAfter(s) ==
    CASE s = "new" -> {"connecting"}
      [] s = "connecting" -> {"connected", "failed"}
      [] s = "connected" -> {"disconnected", "failed"}
      [] OTHER -> {}

\* The transport changes the state of connection p, once the answer is applied
\* and while the connection is not closed, and the event is delivered.  (A
\* connect() that returned from its catch block has closed its connection:
\* CaughtIsClosed.)
PcConnectionStateChange(p) ==
    /\ pc[p].hs = "returned"
    /\ ~pc[p].closed
    /\ \E s \in ConnAfter(pc[p].conn) : OnConnectionStateChange(p, s)

\* stopRecording().
StopRecordingBody ==
    LET log == StopLog(refs) IN
    /\ refs' = StopRefs(refs)
    /\ rec' = ReleaseRecs(rec, log)
    /\ connectionState' = "connected"

\* audioChannel.onopen
AudioChannelOpen(p) ==
    /\ ~pc[p].closed
    /\ pc[p].conn = "connected"
    /\ pc[p].audio = "connecting"
    /\ pc' = [pc EXCEPT ![p].audio = "open"]
    /\ connectionState' = "connected"
    /\ last' = Did("audio.onopen")
    /\ NoAudioProcess /\ UNCHANGED resampler
    /\ UNCHANGED <<transcription, errorMessage, refs, rec, delivered>>

\* audioChannel.onerror: the channel of a connected peer connection fails and
\* closes; its close event follows.
AudioChannelError(p) ==
    /\ ~pc[p].closed
    /\ pc[p].conn = "connected"
    /\ pc[p].audio \in {"connecting", "open"}
    /\ pc' = [pc EXCEPT ![p].audio = "closing"]
    /\ errorMessage' = "Audio channel error occurred"
    /\ connectionState' = "error"
    /\ last' = Did("audio.onerror")
    /\ NoAudioProcess /\ UNCHANGED resampler
    /\ UNCHANGED <<transcription, refs, rec, delivered>>

\* audioChannel.onclose: the close event of a channel that failed, or that the
\* remote peer closes.  The handler reads the connectionState its connect() call
\* closed over.
AudioChannelClose(p) ==
    /\ ~pc[p].closed
    /\ pc[p].audio \in {"open", "closing"}
    /\ pc' = [pc EXCEPT ![p].audio = "closed"]
    /\ IF pc[p].cap = "recording"
       THEN StopRecordingBody
       ELSE UNCHANGED <<connectionState, refs, rec>>
    /\ last' = Did("audio.onclose")
    /\ NoAudioProcess
    /\ UNCHANGED resampler
    /\ UNCHANGED <<transcription, errorMessage, delivered>>

\* transcriptionChannel.onopen: logs.
TranscriptionChannelOpen(p) ==
    /\ ~pc[p].closed
    /\ pc[p].conn = "connected"
    /\ pc[p].trans = "connecting"
    /\ pc' = [pc EXCEPT ![p].trans = "open"]
    /\ last' = Did("transcription.onopen")
    /\ NoAudioProcess /\ UNCHANGED resampler
    /\ UNCHANGED <<connectionState, transcription, errorMessage, refs, rec,
                   delivered>>

\* transcriptionChannel.onerror: logs; the channel is closed.
TranscriptionChannelError(p) ==
    /\ ~pc[p].closed
    /\ pc[p].conn = "connected"
    /\ pc[p].trans \in {"connecting", "open"}
    /\ pc' = [pc EXCEPT ![p].trans = "closed"]
    /\ last' = Did("transcription.onerror")
    /\ NoAudioProcess /\ UNCHANGED resampler
    /\ UNCHANGED <<connectionState, transcription, errorMessage, refs, rec,
                   delivered>>

\* A field of a parsed message: absent (undefined), or a string.
Absent == [has |-> FALSE, str |-> <<>>]
Str(x) == [has |-> TRUE, str |-> x]

\* JavaScript truthiness of a field that is undefined or a string.
Truthy(f) == f.has /\ f.str # <<>>

Message(type, text, message) ==
    [valid |-> TRUE, isObject |-> TRUE, type |-> type, text |-> text, message |-> message]

\* The payloads the remote peer sends, as their wire text is read by JSON.parse:
\* text that is no JSON, the JSON null, and objects whose text and message
\* are strings or missing (interface TranscriptionMessage).
Payloads ==
    { [valid |-> FALSE, isObject |-> FALSE, type |-> "undefined", text |-> Absent,
       message |-> Absent],
      [valid |-> TRUE, isObject |-> FALSE, type |-> "undefined", text |-> Absent,
       message |-> Absent],
      Message("transcription", Str(<<"hello">>), Absent),
      Message("transcription", Str(<<"world">>), Absent),
      Message("transcription", Str(<<>>), Absent),
      Message("transcription", Absent, Absent),
      Message("status", Absent, Str(<<"ready">>)),
      Message("status", Absent, Absent),
      Message("other", Str(<<"hello">>), Absent) }

\* JSON.parse(event.data) followed by the reads of data.type: throws on text
\* that is no JSON, and on null (a property of null is read).
ParseThrows(payload) == ~payload.valid \/ ~payload.isObject

\* The test of line 123 without data.type === 'transcription'.
AppendsAnyType(payload) ==
    /\ ~ParseThrows(payload)
    /\ Truthy(payload.text)

\* Whether the handler reaches setTranscription.
Appends(payload) ==
    /\ ~ParseThrows(payload)
    /\ payload.type = "transcription"
    /\ Truthy(payload.text)

\* History: whether the payload is a well-formed transcription message with a
\* non-empty text (what the Transcript is specified to accumulate).
WellFormedText(payload) ==
    /\ payload.valid
    /\ payload.isObject
    /\ payload.type = "transcription"
    /\ payload.text.has
    /\ Len(payload.text.str) > 0

\* History: whether the payload is one of those specified to have no effect:
\* text that is no JSON, a transcription message without text, a status message
\* (with or without its message), or a message of an unknown type.
Inert(payload) ==
    \/ ~payload.valid
    \/ payload.isObject /\ payload.type = "transcription" /\ ~payload.text.has
    \/ payload.isObject /\ payload.type = "status"
    \/ payload.isObject /\ payload.type \notin {"transcription", "status"}

\* prev => data.text + ' ' + prev
AppendTextInFront(prev, text) == text \o <<" ">> \o prev

\* prev => prev + data.text + ' '
AppendText(prev, text) == prev \o text \o <<" ">>

\* transcriptionChannel.onmessage
TranscriptionChannelMessage(p, payload) ==
    /\ pc[p].trans = "open"
    /\ (Appends(payload) \/ WellFormedText(payload)) => Len(delivered) < MaxMsg
    /\ transcription' = IF Appends(payload)
                        THEN AppendText(transcription, payload.text.str)
                        ELSE transcription
    /\ delivered' = IF WellFormedText(payload)
                    THEN Append(delivered, payload.text.str)
                    ELSE delivered
    /\ last' = [op |-> "transcription.onmessage", from |-> connectionState,
                inert |-> Inert(payload)]
    /\ NoAudioProcess /\ UNCHANGED resampler
    /\ UNCHANGED <<connectionState, errorMessage, refs, pc, rec>>

\* disabled={connectionState !== 'connected'} of the Start Recording button.
StartRecordingEnabled == connectionState = "connected"

\* Click on Start Recording: startRecording() up to its await of getUserMedia().
StartRecording ==
    /\ StartRecordingEnabled
    /\ Len(pc) + Len(rec) < MaxCalls
    /\ transcription' = <<>>
    /\ delivered' = <<>>
    /\ errorMessage' = ""
    /\ rec' = Append(rec, [pos |-> "mic", live |-> FALSE, open |-> FALSE,
                           wired |-> FALSE])
    /\ last' = Did("startRecording")
    /\ NoAudioProcess /\ UNCHANGED resampler
    /\ UNCHANGED <<connectionState, refs, pc>>

\* The release calls of the catch block of startRecording() on the refs r.
RecordingCatchLog(r) ==
    (IF r.mediaStreamRef # Null THEN <<<<"track.stop", r.mediaStreamRef>>>> ELSE <<>>)
    \o (IF r.audioContextRef # Null THEN <<<<"audioContext.close", r.audioContextRef>>>> ELSE <<>>)

\* The refs after the catch block of startRecording().
RecordingCatchRefs(r) == [r EXCEPT !.mediaStreamRef = Null, !.audioContextRef = Null]

\* Where startRecording() may throw once getUserMedia() has resolved: nowhere,
\* in new AudioContext(), in createMediaStreamSource() or createScriptProcessor(),
\* or in one of the two connect() calls that wire the graph.
FailAt == {"none", "context", "processor", "wire"}

\* The refs startRecording() has assigned for call r when it reaches failAt.
RecordingRefs(r0, r, failAt) ==
    [r0 EXCEPT !.mediaStreamRef = r,
               !.audioContextRef = IF failAt = "context" THEN @ ELSE r,
               !.processorRef = IF failAt \in {"wire", "none"} THEN r ELSE @]

\* The resources call r has acquired when it reaches failAt.
Acquired(r, failAt) ==
    [pos |-> "settled",
     live |-> TRUE,
     open |-> failAt # "context",
     wired |-> failAt = "none"]

\* getUserMedia() resolves for call r and startRecording() runs to its end, or
\* to its catch block when the call at failAt throws.
MicGranted(r, failAt, thrown) ==
    /\ rec[r].pos = "mic"
    /\ LET got == RecordingRefs(refs, r, failAt)
           recs == [rec EXCEPT ![r] = Acquired(r, failAt)]
       IN IF failAt = "none"
          THEN /\ refs' = got
               /\ rec' = recs
               /\ connectionState' = "recording"
               /\ UNCHANGED errorMessage
          ELSE /\ errorMessage' = MessageOf(thrown, "Failed to start recording")
               /\ connectionState' = "error"
               /\ refs' = RecordingCatchRefs(got)
               /\ rec' = ReleaseRecs(recs, RecordingCatchLog(got))
    /\ last' = Did(IF failAt = "none" THEN "micGranted" ELSE "recordingCatch")
    /\ NoAudioProcess
    /\ UNCHANGED resampler
    /\ UNCHANGED <<transcription, pc, delivered>>

\* getUserMedia() rejects for call r: the catch block of startRecording().
MicDenied(r, thrown) ==
    /\ rec[r].pos = "mic"
    /\ errorMessage' = MessageOf(thrown, "Failed to start recording")
    /\ connectionState' = "error"
    /\ refs' = RecordingCatchRefs(refs)
    /\ rec' = [ReleaseRecs(rec, RecordingCatchLog(refs)) EXCEPT ![r].pos = "settled"]
    /\ last' = Did("recordingCatch")
    /\ NoAudioProcess
    /\ UNCHANGED resampler
    /\ UNCHANGED <<transcription, pc, delivered>>

\* disabled={connectionState !== 'recording'} of the Stop Recording button.
StopRecordingEnabled == connectionState = "recording"

\* Click on Stop Recording: stopRecording().
StopRecording ==
    /\ StopRecordingEnabled
    /\ StopRecordingBody
    /\ last' = Did("stopRecording")
    /\ NoAudioProcess
    /\ UNCHANGED resampler
    /\ UNCHANGED <<transcription, errorMessage, pc, delivered>>

\* if (audioChannel) without && audioChannel.readyState === 'open'
CanSendUnchecked(r0, pcs) == r0.audioChannelRef # Null

\* if (audioChannel && audioChannel.readyState === 'open'), audioChannel being
\* audioChannelRef.current
CanSend(r0, pcs) ==
    /\ r0.audioChannelRef # Null
    /\ pcs[r0.audioChannelRef].audio = "open"

\* What audioChannel.send(buffer) may do on an open channel: queue the chunk,
\* or throw (the send buffer is full, the chunk is too large).
SendOutcomes == {"sent", "threw"}

\* processor.onaudioprocess: the processing node of call r, connected in a
\* running audio context, delivers a chunk.  The handler resamples it (which
\* changes no state: ResampleSpec), and hands it to the audio channel when
\* there is one and it is open; a send that throws is caught and logged.
AudioProcess(r, outcome) ==
    /\ rec[r].wired
    /\ rec[r].open
    /\ Len(pc) + Len(rec) + ticks <= MaxCalls
    /\ ticks' = ticks + 1
    /\ IF CanSend(refs, pc)
       THEN sent' = IF outcome = "sent" THEN Append(sent, ticks') ELSE sent
       ELSE outcome = "sent" /\ sent' = sent
    /\ last' = Did("audioprocess")
    /\ UNCHANGED <<connectionState, transcription, errorMessage, refs, pc, rec,
                   delivered, resampler>>

Next ==
    \/ Connect
    \/ Disconnect
    \/ StartRecording
    \/ StopRecording
    \/ \E r \in DOMAIN rec, failAt \in FailAt, thrown \in Thrown : MicGranted(r, failAt, thrown)
    \/ \E r \in DOMAIN rec, thrown \in Thrown : MicDenied(r, thrown)
    \/ \E p \in DOMAIN pc : HandshakeResolve(p)
    \/ \E p \in DOMAIN pc : HandshakeReject(p)
    \/ \E p \in DOMAIN pc : HandshakeHttpError(p)
    \/ \E p \in DOMAIN pc : PcConnectionStateChange(p)
    \/ \E p \in DOMAIN pc : AudioChannelOpen(p)
    \/ \E p \in DOMAIN pc : AudioChannelError(p)
    \/ \E p \in DOMAIN pc : AudioChannelClose(p)
    \/ \E p \in DOMAIN pc : TranscriptionChannelOpen(p)
    \/ \E p \in DOMAIN pc : TranscriptionChannelError(p)
    \/ \E p \in DOMAIN pc, payload \in Payloads : TranscriptionChannelMessage(p, payload)
    \/ \E r \in DOMAIN rec, outcome \in SendOutcomes : AudioProcess(r, outcome)

Spec == Init /\ [][Next]_vars

----
\* resampleAudio().
\*
\* A sample is a JavaScript number: a rational n/d (d > 0), NaN, or an infinity
\* (n is its sign).  The arithmetic is exact: the rounding of a product or sum
\* to a double, and of an interpolated sample to a float32, is monotone and
\* leaves 0, 1, -1 and v * (1 - t) + v * t = v (v a float32) as they are.

MaxLen == 3         \* samples of an input, the chunk of bufferSize samples aside

bufferSize == 4096

Num(n, d) == [k |-> "num", n |-> n, d |-> d]
NaN == [k |-> "nan", n |-> 0, d |-> 1]
PosInf == [k |-> "inf", n |-> 1, d |-> 1]
NegInf == [k |-> "inf", n |-> -1, d |-> 1]

\* x < y
Less(x, y) ==
    CASE x.k = "nan" \/ y.k = "nan" -> FALSE
      [] x.k = "inf" -> x.n < 0 /\ ~(y.k = "inf" /\ y.n < 0)
      [] y.k = "inf" -> y.n > 0
      [] OTHER -> x.n * y.d < y.n * x.d

\* Math.min(x, y), Math.max(x, y)
MathMin(x, y) == IF x.k = "nan" \/ y.k = "nan" THEN NaN ELSE IF Less(y, x) THEN y ELSE x
MathMax(x, y) == IF x.k = "nan" \/ y.k = "nan" THEN NaN ELSE IF Less(x, y) THEN y ELSE x

Sign(i) == IF i > 0 THEN 1 ELSE IF i < 0 THEN -1 ELSE 0

RECURSIVE GCD(_, _)
GCD(a, b) == IF b = 0 THEN a ELSE GCD(b, a % b)

\* n/d in lowest terms, so that the integers of the model stay small.
Ratio(n, d) ==
    LET g == GCD(IF n < 0 THEN -n ELSE n, d)
    IN Num(n \div g, d \div g)

\* x * y
Times(x, y) ==
    CASE x.k = "nan" \/ y.k = "nan" -> NaN
      [] x.k = "inf" \/ y.k = "inf" ->
            IF Sign(x.n) * Sign(y.n) = 0 THEN NaN
            ELSE [k |-> "inf", n |-> Sign(x.n) * Sign(y.n), d |-> 1]
      [] OTHER -> Ratio(x.n * y.n, x.d * y.d)

\* x + y
Plus(x, y) ==
    CASE x.k = "nan" \/ y.k = "nan" -> NaN
      [] x.k = "inf" /\ y.k = "inf" -> IF x.n = y.n THEN x ELSE NaN
      [] x.k = "inf" -> x
      [] y.k = "inf" -> y
      [] OTHER -> Ratio(x.n * y.d + y.n * x.d, x.d * y.d)

\* The integer part of n/d (d > 0), towards zero.
Trunc(n, d) == IF n >= 0 THEN n \div d ELSE -((-n) \div d)

\* The store of x into an Int16Array: NaN and the infinities give 0, a number
\* is truncated and taken modulo 2^16 into -32768..32767.
ToInt16(x) ==
    IF x.k # "num" THEN 0
    ELSE ((Trunc(x.n, x.d) + 32768) % 65536) - 32768

\* s < 0 ? s * 0x8000 : s * 0x8000
ScaledBy8000(s) == Times(s, Num(32768, 1))

\* s < 0 ? s * 0x8000 : s * 0x7FFF
Scaled(s) == IF Less(s, Num(0, 1)) THEN Times(s, Num(32768, 1)) ELSE Times(s, Num(32767, 1))

\* const s = Math.max(-1, Math.min(1, x)); int16Data[i] = s < 0 ? ... : ...
Quantize(x) == ToInt16(Scaled(MathMax(Num(-1, 1), MathMin(Num(1, 1), x))))

\* Math.floor(x), for a rational x
MathFloor(x) == x.n \div x.d

\* Math.round(x), for a rational x: the nearest integer, a half going up
MathRound(x) == (2 * x.n + x.d) \div (2 * x.d)

\* Math.floor(inputData.length / ratio)
OutputLengthFloor(length, source, target) == MathFloor(Ratio(length * target, source))

\* ratio = sourceSampleRate / targetSampleRate;
\* outputLength = Math.round(inputData.length / ratio)
OutputLength(length, source, target) == MathRound(Ratio(length * target, source))

\* data[index] of a Float32Array, index counted from 0: a read outside the
\* array gives undefined, NaN in arithmetic.
At(data, index) == IF index + 1 \in DOMAIN data THEN data[index + 1] ELSE NaN

\* outputData[i] of the interpolation loop (i counted from 0), ratio being
\* source / target.
Interpolated(data, source, target, i) ==
    LET ratio == Ratio(source, target)
        srcIndex == Times(Num(i, 1), ratio)
        srcIndexFloor == MathFloor(srcIndex)
        srcIndexCeil == IF srcIndexFloor + 1 < Len(data) - 1
                        THEN srcIndexFloor + 1 ELSE Len(data) - 1
        t == Plus(srcIndex, Num(-srcIndexFloor, 1))
    IN Plus(Times(At(data, srcIndexFloor), Plus(Num(1, 1), Times(Num(-1, 1), t))),
            Times(At(data, srcIndexCeil), t))

\* The value resampleAudio(data, source, target) returns.
ResampleAudio(data, source, target) ==
    IF source = target
    THEN [i \in 1..Len(data) |-> Quantize(data[i])]
    ELSE [i \in 1..OutputLength(Len(data), source, target) |->
             Quantize(Interpolated(data, source, target, i - 1))]

\* The sample values of the inputs.
Samples == {Num(-2, 1), Num(-1, 1), Num(-1, 2), Num(0, 1), Num(1, 2), Num(1, 1),
            Num(2, 1), NaN, PosInf, NegInf}

\* The sample rates of the inputs: of an audio context, and of a target.
SourceRates == {8000, 16000, 44100, 48000}
TargetRates == {16000, 48000}

\* The inputs: every array of up to MaxLen samples, and the chunks of
\* bufferSize equal samples a processing node delivers.
Inputs ==
    UNION {[1..n -> Samples] : n \in 0..MaxLen}
    \cup {[i \in 1..bufferSize |-> v] : v \in {Num(1, 2), Num(-1, 1)}}

\* A call of resampleAudio() on any of the inputs, the component at rest.
ResampleInit ==
    /\ connectionState = "disconnected"
    /\ transcription = <<>>
    /\ errorMessage = ""
    /\ refs = NoRefs
    /\ pc = <<>>
    /\ rec = <<>>
    /\ delivered = <<>>
    /\ last = [op |-> "init", from |-> "disconnected"]
    /\ ticks = 0
    /\ sent = <<>>
    /\ inputData \in Inputs
    /\ sourceSampleRate \in SourceRates
    /\ targetSampleRate \in TargetRates
    /\ int16Data = <<>>
    /\ returned = FALSE

\* The call returns on the path of equal rates.
ResampleIdentity ==
    /\ ~returned
    /\ sourceSampleRate = targetSampleRate
    /\ int16Data' = ResampleAudio(inputData, sourceSampleRate, targetSampleRate)
    /\ returned' = TRUE
    /\ UNCHANGED <<connectionState, transcription, errorMessage, refs, pc, rec,
                   delivered, last, stream, inputData, sourceSampleRate,
                   targetSampleRate>>

\* The call returns on the path of linear interpolation.
ResampleInterpolate ==
    /\ ~returned
    /\ sourceSampleRate # targetSampleRate
    /\ int16Data' = ResampleAudio(inputData, sourceSampleRate, targetSampleRate)
    /\ returned' = TRUE
    /\ UNCHANGED <<connectionState, transcription, errorMessage, refs, pc, rec,
                   delivered, last, stream, inputData, sourceSampleRate,
                   targetSampleRate>>

ResampleNext == ResampleIdentity \/ ResampleInterpolate

ResampleSpec == ResampleInit /\ [][ResampleNext]_vars

----
\* Properties.

\* Every connect() that returns from its catch block leaves its own peer
\* connection closed.
CaughtIsClosed ==
    [][\A p \in DOMAIN pc :
          (pc[p].hs \in InFlight /\ pc'[p].hs = "returned" /\ last'.op = "connectCatch")
              => pc'[p].closed]_vars

Handles == {"processorRef", "mediaStreamRef", "audioContextRef", "pcRef",
            "audioChannelRef", "transcriptionChannelRef"}

AllAbsent(r) == \A h \in Handles : r[h] = Null

\* C1: a state that disconnect() has just produced is Disconnected, with an empty
\* Transcript, an empty error message and all six resource handles absent,
\* whatever state disconnect() was invoked in.
DisconnectLeavesCleanSlate ==
    last.op = "disconnect" =>
        /\ connectionState = "disconnected"
        /\ transcription = <<>>
        /\ errorMessage = ""
        /\ AllAbsent(refs)

\* disconnect() has run in state Connecting while the handshake was in flight.
DisconnectMidHandshake ==
    /\ last.op = "disconnect"
    /\ last.from = "connecting"
    /\ \E p \in DOMAIN pc : pc[p].hs \in InFlight /\ pc[p].abandoned /\ pc[p].closed

\* C2: the completion (resolution or rejection of an await) of a handshake that a
\* disconnect() has abandoned changes neither the connection state, nor the
\* error message, nor a resource handle, and closes or releases no resource.
StaleHandshakeDoesNotAct ==
    [][\A p \in DOMAIN pc :
          (pc[p].abandoned /\ pc'[p].hs # pc[p].hs) =>
              /\ connectionState' = connectionState
              /\ errorMessage' = errorMessage
              /\ refs' = refs
              /\ \A q \in DOMAIN pc : pc'[q].closed = pc[q].closed
              /\ rec' = rec]_vars

\* C3: in every state whose connection state is Error, all six resource handles
\* are absent.
ErrorImpliesAllAbsent == connectionState = "error" => AllAbsent(refs)

\* C4: every step that moves the connection state to Recording starts in
\* Connected.
RecordingOnlyFromConnected ==
    [][(connectionState' = "recording" /\ connectionState # "recording")
          => connectionState = "connected"]_vars

\* C5: every step that creates a peer connection or assigns the peer-connection
\* or a channel handle starts in Disconnected with these three handles absent
\* and ends in Connecting with the error message empty; so no connect() acts in
\* Connecting, Connected, Recording or Error.
ConnectOnlyFromDisconnected ==
    [][(\/ Len(pc') # Len(pc)
        \/ \E h \in {"pcRef", "audioChannelRef", "transcriptionChannelRef"} :
              refs'[h] # refs[h] /\ refs'[h] # Null)
          => /\ connectionState = "disconnected"
             /\ refs.pcRef = Null
             /\ refs.audioChannelRef = Null
             /\ refs.transcriptionChannelRef = Null
             /\ connectionState' = "connecting"]_vars

\* A second connect() has run, after the first session ended.
SecondConnectActed ==
    /\ last.op = "connect"
    /\ last.from = "disconnected"
    /\ connectionState = "connecting"
    /\ Len(pc) = 2
    /\ refs.pcRef = 2

\* C6: the error message is non-empty exactly when the connection state is Error.
ErrorMessageIffError == (errorMessage # "") <=> (connectionState = "error")

\* C7: when an await of a handshake that no disconnect() has abandoned rejects,
\* or its response is not ok, connect() ends in Error with a non-empty error
\* message, its peer connection closed and all six resource handles absent.
HandshakeFailureCleansUp ==
    [][\A p \in DOMAIN pc :
          (/\ pc[p].hs \in InFlight
           /\ ~pc[p].abandoned
           /\ pc'[p].hs = "returned"
           /\ last'.op = "connectCatch") =>
              /\ connectionState' = "error"
              /\ errorMessage' # ""
              /\ pc'[p].closed
              /\ AllAbsent(refs')]_vars

\* The only handshake started has failed in Connecting: no disconnect() ran.
HandshakeFailedInConnecting ==
    /\ last.op = "connectCatch"
    /\ last.from = "connecting"
    /\ Len(pc) = 1
    /\ pc[1].hs = "returned"
    /\ connectionState = "error"

\* The place of a release call in the order processing node, media stream,
\* audio-processing context, peer connection.
Rank(call) ==
    CASE call = "processor.disconnect" -> 1
      [] call = "track.stop" -> 2
      [] call = "audioContext.close" -> 3
      [] call = "pc.close" -> 4

\* C8: for the resource handles of every reachable state, cleanup() leaves all
\* six absent, a second cleanup() right after it makes no release call and
\* changes no handle, and the release calls of cleanup() come in the order
\* processing node, media stream, audio-processing context, peer connection,
\* one call for each handle that is present.
CleanupIdempotent ==
    LET once == CleanupRefs(refs)
        log == CleanupLog(refs)
    IN /\ AllAbsent(once)
       /\ CleanupLog(once) = <<>>
       /\ CleanupRefs(once) = once
       /\ \A i, j \in DOMAIN log : i < j => Rank(log[i][1]) < Rank(log[j][1])
       /\ Len(log) = Cardinality({h \in {"processorRef", "mediaStreamRef",
                                          "audioContextRef", "pcRef"} : refs[h] # Null})

\* All six handles are present, so that cleanup() has four releases to order.
AllHandlesPresent ==
    /\ \A h \in Handles : refs[h] # Null
    /\ Len(CleanupLog(refs)) = 4

\* C9: stopRecording() invoked in Recording ends in Connected, with the
\* processing node, the media stream and the audio-processing context it held
\* released and their handles absent, and with the peer-connection, audio-channel
\* and transcription-channel handles, the Transcript and the error message as
\* they were.
StopRecordingFrame ==
    [][(last'.op = "stopRecording" /\ connectionState = "recording") =>
          /\ connectionState' = "connected"
          /\ refs'.processorRef = Null
          /\ refs'.mediaStreamRef = Null
          /\ refs'.audioContextRef = Null
          /\ \A r \in DOMAIN rec :
                /\ r = refs.processorRef => ~rec'[r].wired
                /\ r = refs.mediaStreamRef => ~rec'[r].live
                /\ r = refs.audioContextRef => ~rec'[r].open
          /\ refs'.pcRef = refs.pcRef
          /\ refs'.audioChannelRef = refs.audioChannelRef
          /\ refs'.transcriptionChannelRef = refs.transcriptionChannelRef
          /\ pc' = pc
          /\ transcription' = transcription
          /\ errorMessage' = errorMessage]_vars

\* stopRecording() has run on a live session that holds a Transcript.
StopRecordingActed ==
    /\ last.op = "stopRecording"
    /\ last.from = "recording"
    /\ connectionState = "connected"
    /\ refs.pcRef # Null
    /\ transcription # <<>>
    /\ \E r \in DOMAIN rec : rec[r].pos = "settled" /\ ~rec[r].live

\* text + " " for each text of a sequence, concatenated in order.
RECURSIVE Joined(_)
Joined(texts) ==
    IF texts = <<>> THEN <<>>
    ELSE Head(texts) \o <<" ">> \o Joined(Tail(texts))

MalformedPayloadIsInert ==
    [][(last'.op = "transcription.onmessage" /\ last'.inert) =>
          /\ transcription' = transcription
          /\ connectionState' = connectionState
          /\ errorMessage' = errorMessage
          /\ refs' = refs
          /\ pc' = pc
          /\ rec' = rec]_vars

\* A payload of these kinds was delivered while the Transcript held a text.
GarbageDeliveredOnTranscript ==
    /\ last.op = "transcription.onmessage"
    /\ last.inert
    /\ transcription = <<"hello", " ">>

\* A finite sample x and the integer y stand in the relation of quantization:
\* x is clamped to [-1, 1], a negative value is scaled by 32768 and a
\* non-negative one by 32767, and the fraction is dropped.
Quantized(x, y) ==
    /\ x.n <= -x.d => y = -32768
    /\ x.n >= x.d => y = 32767
    /\ (-x.d < x.n /\ x.n < 0) => ((y - 1) * x.d < x.n * 32768 /\ x.n * 32768 <= y * x.d)
    /\ (0 <= x.n /\ x.n < x.d) => (y * x.d <= x.n * 32767 /\ x.n * 32767 < (y + 1) * x.d)

\* C12: every sample resampleAudio() returns lies in -32768..32767, for every
\* input; on the path of equal rates each finite input sample and its output
\* sample stand in the relation of quantization, and an infinite sample gives
\* the bound of its sign; on the interpolation path the same holds of every
\* output sample of an input whose samples all have one finite value; so that
\* 1.0 gives 32767, -1.0 gives -32768 and 0.0 gives 0 on both paths.
QuantizationInRange ==
    returned =>
        /\ \A i \in DOMAIN int16Data : int16Data[i] \in -32768..32767
        /\ sourceSampleRate = targetSampleRate =>
              /\ DOMAIN int16Data = DOMAIN inputData
              /\ \A i \in DOMAIN inputData :
                    /\ inputData[i].k = "num" => Quantized(inputData[i], int16Data[i])
                    /\ inputData[i] = PosInf => int16Data[i] = 32767
                    /\ inputData[i] = NegInf => int16Data[i] = -32768
                    /\ inputData[i] = Num(1, 1) => int16Data[i] = 32767
                    /\ inputData[i] = Num(-1, 1) => int16Data[i] = -32768
                    /\ inputData[i] = Num(0, 1) => int16Data[i] = 0
        /\ sourceSampleRate # targetSampleRate =>
              \A v \in {x \in Samples : x.k = "num"} :
                  (\A j \in DOMAIN inputData : inputData[j] = v) =>
                      \A i \in DOMAIN int16Data : Quantized(v, int16Data[i])

\* Three samples of -1.0 at 48000 Hz were resampled to one sample of -32768.
MinusOneInterpolated ==
    /\ returned
    /\ sourceSampleRate = 48000
    /\ targetSampleRate = 16000
    /\ inputData = <<Num(-1, 1), Num(-1, 1), Num(-1, 1)>>
    /\ int16Data = <<-32768>>

\* C13: the array resampleAudio() returns has round(length / (source / target))
\* samples, length being the number of input samples and a half rounding up:
\* as many as the input when the rates are equal, and 1365 or 1366 for a chunk
\* of 4096 samples at 48000 Hz and a target of 16000 Hz.
LengthLaw ==
    returned =>
        LET n == Len(int16Data)
            length == Len(inputData)
        IN /\ (2 * n - 1) * sourceSampleRate <= 2 * length * targetSampleRate
           /\ 2 * length * targetSampleRate < (2 * n + 1) * sourceSampleRate
           /\ sourceSampleRate = targetSampleRate => n = length
           /\ (length = 4096 /\ sourceSampleRate = 48000 /\ targetSampleRate = 16000)
                 => n \in {1365, 1366}

\* A chunk of 4096 samples at 48000 Hz was resampled to 1365 samples.
ChunkResampled ==
    /\ returned
    /\ Len(inputData) = bufferSize
    /\ sourceSampleRate = 48000
    /\ targetSampleRate = 16000
    /\ Len(int16Data) = 1365

\* C14: in every state, when the connection state is Disconnected all six
\* resource handles are absent, and when it is not Recording the media-stream,
\* audio-processing-context and processing-node handles are absent.
SessionResourceInvariant ==
    /\ connectionState = "disconnected" => AllAbsent(refs)
    /\ connectionState # "recording" =>
          /\ refs.mediaStreamRef = Null
          /\ refs.audioContextRef = Null
          /\ refs.processorRef = Null

\* C15: every step in which the audio channel closes while the connection state
\* is Recording ends in Connected, with the processing node, the media stream
\* and the audio-processing context released and their handles absent (the
\* close handler acts on the connection state of the time of the close event).
AudioCloseStopsRecording ==
    [][(last'.op = "audio.onclose" /\ connectionState = "recording") =>
          /\ connectionState' = "connected"
          /\ refs'.processorRef = Null
          /\ refs'.mediaStreamRef = Null
          /\ refs'.audioContextRef = Null
          /\ \A r \in DOMAIN rec :
                /\ r = refs.processorRef => ~rec'[r].wired
                /\ r = refs.mediaStreamRef => ~rec'[r].live
                /\ r = refs.audioContextRef => ~rec'[r].open]_vars

\* C16: every step of the audio channel opening that moves the connection state
\* to Connected starts in Connecting, and such a step that starts in Error or
\* in Disconnected leaves the connection state as it was.
OpenConnectsOnlyFromConnecting ==
    [][last'.op = "audio.onopen" =>
          /\ (connectionState' = "connected" /\ connectionState # "connected")
                => connectionState = "connecting"
          /\ connectionState \in {"error", "disconnected"}
                => connectionState' = connectionState]_vars

\* C17: every step in which a call of startRecording() fails (getUserMedia()
\* rejects, or one of the later acquisition or wiring calls throws) ends in
\* Error with a non-empty error message, with the media-stream,
\* audio-processing-context and processing-node handles absent, and with
\* nothing the call acquired still running.
FailedStartReleasesAll ==
    [][\A r \in DOMAIN rec :
          (rec[r].pos = "mic" /\ rec'[r].pos = "settled" /\ last'.op = "recordingCatch") =>
              /\ connectionState' = "error"
              /\ errorMessage' # ""
              /\ refs'.mediaStreamRef = Null
              /\ refs'.audioContextRef = Null
              /\ refs'.processorRef = Null
              /\ ~rec'[r].live
              /\ ~rec'[r].open
              /\ ~rec'[r].wired]_vars

\* C18: every audioprocess event leaves the connection state, the error
\* message, the Transcript, the six resource handles and every resource as
\* they were; it hands no chunk to a channel when the audio-channel handle is
\* absent or the channel is not open; otherwise it hands over its own chunk,
\* after the chunks of the earlier events, or nothing (the send threw, and the
\* handler caught it); so the chunks sent are in the order of their events.
AudioTickBestEffort ==
    [][last'.op = "audioprocess" =>
          /\ connectionState' = connectionState
          /\ errorMessage' = errorMessage
          /\ transcription' = transcription
          /\ refs' = refs
          /\ pc' = pc
          /\ rec' = rec
          /\ ticks' = ticks + 1
          /\ (refs.audioChannelRef = Null \/ pc[refs.audioChannelRef].audio # "open")
                => sent' = sent
          /\ sent' = sent \/ sent' = Append(sent, ticks')
          /\ \A i, j \in DOMAIN sent' : i < j => sent'[i] < sent'[j]]_vars

\* The first chunk was sent, and the send of the second one, on an open
\* channel, threw.
SecondSendThrew ==
    /\ last.op = "audioprocess"
    /\ ticks = 2
    /\ sent = <<1>>
    /\ refs.audioChannelRef # Null
    /\ pc[refs.audioChannelRef].audio = "open"

\* C19: in every state, every peer connection that was created and is not
\* closed is the one the peer-connection handle holds; so at most one is open,
\* and none is open that no handle refers to.
SingleSession ==
    /\ \A p \in DOMAIN pc : ~pc[p].closed => refs.pcRef = p
    /\ Cardinality({p \in DOMAIN pc : ~pc[p].closed}) <= 1

\* A second session is open, the first one closed.
SecondSessionOpen ==
    /\ Len(pc) = 2
    /\ pc[1].closed
    /\ ~pc[2].closed
    /\ pc[2].conn = "connected"
    /\ refs.pcRef = 2

\* C20: in every state, every media stream that was acquired and is not stopped
\* is the one the media-stream handle holds.
NoOrphanedStream == \A r \in DOMAIN rec : rec[r].live => refs.mediaStreamRef = r

\* C21: in every state whose connection state is Connected or Recording, the
\* peer-connection, audio-channel and transcription-channel handles are
\* present.
UsableSessionHasConnection ==
    connectionState \in {"connected", "recording"} =>
        /\ refs.pcRef # Null
        /\ refs.audioChannelRef # Null
        /\ refs.transcriptionChannelRef # Null

====
